---------------------------- MODULE Spec2Model ----------------------------
(***************************************************************************)
(* pysonic: a client for the OpenSubsonic REST protocol.                   *)
(*                                                                         *)
(*   src/src/pysonic/fields.py     case converter, _Field materializer,    *)
(*                                 the field classes (schema registry)     *)
(*   src/src/pysonic/responses.py  case converter, _BaseResponse           *)
(*                                 materializer, SubsonicResponse, Error   *)
(*   src/src/pysonic/__init__.py   OpenSubsonic: auth context, endpoints   *)
(*                                                                         *)
(* Python strings are TLA+ strings.  Every other Python value is a record  *)
(* tagged by "kind"; each kind keeps its payload in a field of its own     *)
(* name, so two values of different kinds never share a payload field.     *)
(***************************************************************************)
EXTENDS Integers, Sequences, FiniteSets, TLC

VARIABLES
    cc,       \* case converter: the call under way (module, input, ops, value)
    mat,      \* materializer: the call under way (class, data, result)
    self,     \* the OpenSubsonic instance: its attributes, or NoClient
    ctor,     \* the arguments __init__ was called with (history)
    sent,     \* the GET requests handed to the transport, oldest first
    outcome   \* what the last call returned or raised

vars == <<cc, mat, self, ctor, sent, outcome>>

---------------------------------------------------------------------------
(* str methods used by the source                                          *)

ascii_lowercase == "abcdefghijklmnopqrstuvwxyz"
ascii_uppercase == "ABCDEFGHIJKLMNOPQRSTUVWXYZ"

CharAt(s, i) == SubSeq(s, i, i)

\* Index of the one-character string c in alphabet, 0 when it is not there.
IndexIn(alphabet, c) ==
    IF \E i \in 1..Len(alphabet) : CharAt(alphabet, i) = c
    THEN CHOOSE i \in 1..Len(alphabet) : CharAt(alphabet, i) = c
    ELSE 0

\* [A-Z] of the pattern, and str.isupper on one character.
IsUpper(c) == IndexIn(ascii_uppercase, c) > 0

char_lower(c) ==
    IF IsUpper(c) THEN CharAt(ascii_lowercase, IndexIn(ascii_uppercase, c)) ELSE c

char_upper(c) ==
    IF IndexIn(ascii_lowercase, c) > 0
    THEN CharAt(ascii_uppercase, IndexIn(ascii_lowercase, c))
    ELSE c

RECURSIVE str_lower(_)
str_lower(s) ==
    IF s = "" THEN "" ELSE char_lower(CharAt(s, 1)) \o str_lower(SubSeq(s, 2, Len(s)))

\* str.capitalize: first character upper-cased, the rest lower-cased.
str_capitalize(word) ==
    IF word = "" THEN ""
    ELSE char_upper(CharAt(word, 1)) \o str_lower(SubSeq(word, 2, Len(word)))

\* str.split(sep) for a one-character separator: empty words are kept.
RECURSIVE str_split(_, _)
str_split(s, sep) ==
    LET idx == IndexIn(s, sep)
    IN  IF idx = 0 THEN <<s>>
        ELSE <<SubSeq(s, 1, idx - 1)>> \o str_split(SubSeq(s, idx + 1, Len(s)), sep)

\* "".join(words)
RECURSIVE str_join(_)
str_join(words) ==
    IF words = <<>> THEN "" ELSE Head(words) \o str_join(Tail(words))

StartsWith(s, prefix) ==
    Len(s) >= Len(prefix) /\ SubSeq(s, 1, Len(prefix)) = prefix

\* str.replace(old, new) for a non-empty old: leftmost, non-overlapping.
RECURSIVE str_replace(_, _, _)
str_replace(s, old, new) ==
    IF s = "" THEN ""
    ELSE IF StartsWith(s, old)
         THEN new \o str_replace(SubSeq(s, Len(old) + 1, Len(s)), old, new)
         ELSE CharAt(s, 1) \o str_replace(SubSeq(s, 2, Len(s)), old, new)

\* regex_compile(r"(?<!^)(?=[A-Z])").sub(repl, s): the pattern matches the
\* empty string before every upper-case letter that is not at position 0.
RECURSIVE pattern_sub_from(_, _, _)
pattern_sub_from(repl, s, i) ==
    IF i > Len(s) THEN ""
    ELSE (IF i > 1 /\ IsUpper(CharAt(s, i)) THEN repl ELSE "")
         \o CharAt(s, i) \o pattern_sub_from(repl, s, i + 1)

_camel_case_to_snake_case_pattern_sub(repl, s) == pattern_sub_from(repl, s, 1)

---------------------------------------------------------------------------
(* Case converter                                                          *)

\* fields.py 29 without the trailing .lower()
fields_camel_to_snake_case_without_lower(camel_case) ==
    _camel_case_to_snake_case_pattern_sub("_", camel_case)

\* fields.py 27-29.  Line 28 calls camel_case.replace(...) and drops what it
\* returns (str is immutable), so line 29 works on the argument as passed.
fields_camel_to_snake_case(camel_case) ==
    LET dropped == str_replace(camel_case, "musicBrainz", "musicbrainz")
    IN  str_lower(_camel_case_to_snake_case_pattern_sub("_", camel_case))

capitalize_all(words) == [i \in 1..Len(words) |-> str_capitalize(words[i])]

\* fields.py 32-35 (and responses.py 16-19, the same text).
fields_snake_to_camel_case(snake_case) ==
    LET camel_case == str_join(capitalize_all(str_split(str_lower(snake_case), "_")))
    IN  char_lower(CharAt(camel_case, 1)) \o SubSeq(camel_case, 2, Len(camel_case))

\* responses.py 12-13
responses_camel_to_snake_case(camel_case) ==
    str_lower(_camel_case_to_snake_case_pattern_sub("_", camel_case))

\* responses.py 16-19
responses_snake_to_camel_case(snake_case) ==
    LET camel_case == str_join(capitalize_all(str_split(str_lower(snake_case), "_")))
    IN  char_lower(CharAt(camel_case, 1)) \o SubSeq(camel_case, 2, Len(camel_case))

---------------------------------------------------------------------------
(* Schema registry: each class's __annotations__.  Both modules start with *)
(* "from __future__ import annotations" (fields.py 3, responses.py 3), so  *)
(* every annotation is stored as the text of the annotation, a str.        *)

\* fields.py 115-174: class AlbumID3Field, its __annotations__ in declaration order.
AlbumID3Field_annotations ==
    <<<<"id", "str">>,
       <<"name", "str">>,
       <<"version", "str | None">>,
       <<"artist", "str | None">>,
       <<"artist_id", "str | None">>,
       <<"cover_art", "str | None">>,
       <<"song_count", "int">>,
       <<"duration", "timedelta">>,
       <<"play_count", "int | None">>,
       <<"created", "datetime">>,
       <<"starred", "datetime | None">>,
       <<"year", "int | None">>,
       <<"genre", "str | None">>,
       <<"played", "datetime | None">>,
       <<"user_rating", "Literal[1, 2, 3, 4, 5] | None">>,
       <<"record_labels", "list[RecordLabelField] | None">>,
       <<"musicbrainz_id", "str | None">>,
       <<"genres", "list[ItemGenreField] | None">>,
       <<"artists", "list[ArtistID3Field] | None">>,
       <<"display_artist", "str | None">>,
       <<"release_types", "list[str] | None">>,
       <<"moods", "list[str] | None">>,
       <<"sort_name", "str | None">>,
       <<"original_release_date", "ItemDateField | None">>,
       <<"release_date", "ItemDateField | None">>,
       <<"is_compilation", "bool | None">>,
       <<"explicit_status", "Literal['explicit', 'clean', ''] | None">>,
       <<"disc_titles", "list[DiscTitleField] | None">> >>

\* fields.py 177-198: class ArtistID3Field, its __annotations__ in declaration order.
ArtistID3Field_annotations ==
    <<<<"id", "str">>,
       <<"name", "str">>,
       <<"cover_art", "str | None">>,
       <<"artist_image_url", "str | None">>,
       <<"album_count", "int | None">>,
       <<"starred", "datetime | None">>,
       <<"musicbrainz_id", "str | None">>,
       <<"sort_name", "str | None">>,
       <<"roles", "list[str] | None">> >>

\* fields.py 201-312: class ChildField, its __annotations__ in declaration order.
ChildField_annotations ==
    <<<<"id", "str">>,
       <<"parent", "str | None">>,
       <<"is_dir", "bool">>,
       <<"title", "str">>,
       <<"album", "str | None">>,
       <<"artist", "str | None">>,
       <<"track", "int | None">>,
       <<"year", "int | None">>,
       <<"genre", "str | None">>,
       <<"cover_art", "str | None">>,
       <<"size", "int | None">>,
       <<"content_type", "str | None">>,
       <<"suffix", "str | None">>,
       <<"transcoded_content_type", "str | None">>,
       <<"transcoded_suffix", "str | None">>,
       <<"duration", "timedelta | None">>,
       <<"bit_rate", "int | None">>,
       <<"bit_depth", "int | None">>,
       <<"sampling_rate", "int | None">>,
       <<"channel_count", "int | None">>,
       <<"path", "str | None">>,
       <<"is_video", "bool | None">>,
       <<"user_rating", "Literal[1, 2, 3, 4, 5] | None">>,
       <<"average_rating", "Annotated[float, ValueRange(1.0, 5.0)] | None">>,
       <<"play_count", "int | None">>,
       <<"disc_number", "int | None">>,
       <<"created", "datetime | None">>,
       <<"starred", "datetime | None">>,
       <<"album_id", "str | None">>,
       <<"artist_id", "str | None">>,
       <<"type", "Literal['music', 'podcast', 'audiobook', 'video'] | None">>,
       <<"media_type", "Literal['song', 'album', 'artist'] | None">>,
       <<"bookmark_position", "timedelta | None">>,
       <<"original_width", "int | None">>,
       <<"original_height", "int | None">>,
       <<"played", "datetime | None">>,
       <<"bpm", "int | None">>,
       <<"comment", "str | None">>,
       <<"sort_name", "str | None">>,
       <<"musicbrainz_id", "str | None">>,
       <<"isrc", "list[str] | None">>,
       <<"genres", "list[ItemGenreField] | None">>,
       <<"artists", "list[ArtistID3Field] | None">>,
       <<"display_artist", "str | None">>,
       <<"album_artists", "list[ArtistID3Field] | None">>,
       <<"display_album_artist", "str | None">>,
       <<"contributors", "list[ContributorField] | None">>,
       <<"display_composer", "str | None">>,
       <<"moods", "list[str] | None">>,
       <<"replaygain", "ReplayGainField | None">>,
       <<"explicit_status", "Literal['explicit', 'clean', '', 1, 2, 4] | None">> >>

\* fields.py 315-327: class ContributorField, its __annotations__ in declaration order.
ContributorField_annotations ==
    <<<<"role", "str">>,
       <<"sub_role", "str">>,
       <<"artist", "ArtistID3Field">> >>

\* fields.py 330-348: class DirectoryField, its __annotations__ in declaration order.
DirectoryField_annotations ==
    <<<<"id", "str">>,
       <<"parent", "str | None">>,
       <<"name", "str">>,
       <<"starred", "datetime | None">>,
       <<"user_rating", "Literal[1, 2, 3, 4, 5] | None">>,
       <<"average_rating", "Annotated[float, ValueRange(1.0, 5.0)] | None">>,
       <<"play_count", "int | None">>,
       <<"child", "list[ChildField] | None">> >>

\* fields.py 351-357: class DiscTitleField, its __annotations__ in declaration order.
DiscTitleField_annotations ==
    <<<<"disc", "int">>,
       <<"title", "str">> >>

\* fields.py 360-370: class ErrorField, its __annotations__ in declaration order.
ErrorField_annotations ==
    <<<<"code", "Literal[0, 10, 20, 30, 40, 41, 42, 43, 44, 50, 60, 70]">>,
       <<"message", "str | None">>,
       <<"help_url", "str | None">> >>

\* fields.py 373-386: class ItemDateField, its __annotations__ in declaration order.
ItemDateField_annotations ==
    <<<<"year", "int | None">>,
       <<"month", "Literal[1, 2, 3, 4, 5, 6, 7, 8, 9, 10, 11, 12] | None">>,
       <<"day", "Literal[1, 2, 3, 4, 5, 6, 7, 8, 9, 10, 11, 12, 13, 14, 15, 16, 17, 18, 19, 20, 21, 22, 23, 24, 25, 26, 27, 28, 29, 30, 31] | None">> >>

\* fields.py 389-393: class ItemGenreField, its __annotations__ in declaration order.
ItemGenreField_annotations ==
    <<<<"name", "str">> >>

\* fields.py 396-402: class MusicFolderField, its __annotations__ in declaration order.
MusicFolderField_annotations ==
    <<<<"id", "int">>,
       <<"name", "str | None">> >>

\* fields.py 405-409: class MusicFoldersField, its __annotations__ in declaration order.
MusicFoldersField_annotations ==
    <<<<"music_folder", "list[MusicFolderField]">> >>

\* fields.py 412-416: class RecordLabelField, its __annotations__ in declaration order.
RecordLabelField_annotations ==
    <<<<"name", "str">> >>

\* fields.py 419-437: class ReplayGainField, its __annotations__ in declaration order.
ReplayGainField_annotations ==
    <<<<"track_gain", "float | None">>,
       <<"album_gain", "float | None">>,
       <<"track_peak", "Annotated[float, ValueRange(0, None)] | None">>,
       <<"album_peak", "Annotated[float, ValueRange(0, None)] | None">>,
       <<"base_gain", "float | None">>,
       <<"fallback_gain", "float | None">> >>

\* responses.py 62-87: class SubsonicResponse, its __annotations__ in declaration order.
SubsonicResponse_annotations ==
    <<<<"status", "Literal['ok', 'failure']">>,
       <<"version", "str">>,
       <<"type", "str | None">>,
       <<"server_version", "str | None">>,
       <<"open_subsonic", "bool | None">>,
       <<"error", "Error | None">> >>

\* responses.py 90-100: class Error, its __annotations__ in declaration order.
Error_annotations ==
    <<<<"code", "Literal[0, 10, 20, 30, 40, 41, 42, 43, 44, 50, 60, 70]">>,
       <<"message", "str | None">>,
       <<"help_url", "str | None">> >>
\* The classes of fields.py that subclass _Field, in source order.
fields_classes ==
    <<"AlbumID3Field", "ArtistID3Field", "ChildField", "ContributorField",
      "DirectoryField", "DiscTitleField", "ErrorField", "ItemDateField",
      "ItemGenreField", "MusicFolderField", "MusicFoldersField",
      "RecordLabelField", "ReplayGainField">>

\* The classes of responses.py that subclass _BaseResponse, in source order.
responses_classes == <<"SubsonicResponse", "Error">>

Range(seq) == {seq[i] : i \in 1..Len(seq)}

\* cls.__annotations__ (fields.py 72, responses.py 48)
annotations_of(cls) ==
    CASE cls = "AlbumID3Field"     -> AlbumID3Field_annotations
      [] cls = "ArtistID3Field"    -> ArtistID3Field_annotations
      [] cls = "ChildField"        -> ChildField_annotations
      [] cls = "ContributorField"  -> ContributorField_annotations
      [] cls = "DirectoryField"    -> DirectoryField_annotations
      [] cls = "DiscTitleField"    -> DiscTitleField_annotations
      [] cls = "ErrorField"        -> ErrorField_annotations
      [] cls = "ItemDateField"     -> ItemDateField_annotations
      [] cls = "ItemGenreField"    -> ItemGenreField_annotations
      [] cls = "MusicFolderField"  -> MusicFolderField_annotations
      [] cls = "MusicFoldersField" -> MusicFoldersField_annotations
      [] cls = "RecordLabelField"  -> RecordLabelField_annotations
      [] cls = "ReplayGainField"   -> ReplayGainField_annotations
      [] cls = "SubsonicResponse"  -> SubsonicResponse_annotations
      [] cls = "Error"             -> Error_annotations
      [] OTHER                     -> <<>>

\* The attribute names a class declares.
\* The keys of an __annotations__, in declaration order.
annotations_keys(annotations) == [i \in 1..Len(annotations) |-> annotations[i][1]]

variable_names(cls) == {annotations_of(cls)[i][1] : i \in 1..Len(annotations_of(cls))}

\* Every internal (snake_case) name the registry of a module declares.
fields_names == UNION {variable_names(cls) : cls \in Range(fields_classes)}
responses_names == UNION {variable_names(cls) : cls \in Range(responses_classes)}

\* _snake_to_camel_case(variable_name) for every name of the registry, each
\* evaluated once: the key from_dict looks an attribute up by.
fields_external_key == [n \in fields_names |-> fields_snake_to_camel_case(n)]
responses_external_key == [n \in responses_names |-> responses_snake_to_camel_case(n)]

---------------------------------------------------------------------------
(* Python values                                                           *)

PyNone == [kind |-> "None"]
PyStr(s) == [kind |-> "str", str |-> s]
PyInt(n) == [kind |-> "int", int |-> n]
PyFloat(n) == [kind |-> "float", float |-> n]
PyBool(b) == [kind |-> "bool", bool |-> b]
PyList(items) == [kind |-> "list", list |-> items]
PyDict(map) == [kind |-> "dict", dict |-> map]
\* A class object, and list[item]: what an evaluated annotation would be.
PyType(name) == [kind |-> "type", name |-> name]
PyGenericAlias(origin, args) == [kind |-> "GenericAlias", origin |-> origin, args |-> args]
\* timedelta(seconds=n) and datetime.fromisoformat(s)
PyTimedelta(n) == [kind |-> "timedelta", seconds |-> n]
PyDatetime(s) == [kind |-> "datetime", isoformat |-> s]
\* An instance of a class of the registry, with vars(instance).
PyInstance(cls, attrs) == [kind |-> "instance", class |-> cls, vars |-> attrs]
\* An exception on its way to the caller.
Raise(exception, arg) == [kind |-> "raise", exception |-> exception, arg |-> arg]
\* A str that holds a JSON document: loads is what json.loads returns for it
\* (a Python value, or the JSONDecodeError it raises).
JsonText(doc) == [kind |-> "str", loads |-> doc]

EmptyMap == <<>>

IsRaise(v) == v.kind = "raise"

\* The first exception raised, in evaluation order, or 0 when none is.
FirstRaise(values) ==
    LET bad == {i \in 1..Len(values) : IsRaise(values[i])}
    IN  IF bad = {} THEN 0 ELSE CHOOSE i \in bad : \A j \in bad : i <= j

\* obj[key] for a str key: a dict gives the value or raises KeyError, any
\* other value raises TypeError.
Subscript(obj, key) ==
    IF obj.kind = "dict"
    THEN IF key \in DOMAIN obj.dict THEN obj.dict[key] ELSE Raise("KeyError", key)
    ELSE Raise("TypeError", obj.kind)

\* fields.py 80-83, responses.py 49-53 without the try: a missing key raises.
SubscriptOrNone_uncaught(raw, key) ==
    IF raw.kind = "dict"
    THEN IF key \in DOMAIN raw.dict THEN raw.dict[key] ELSE Raise("KeyError", key)
    ELSE Raise("TypeError", raw.kind)

\* try: value = raw[key] / except KeyError: value = None  (fields.py 80-83,
\* responses.py 49-53); any other exception goes on.
SubscriptOrNone(raw, key) ==
    IF raw.kind = "dict"
    THEN IF key \in DOMAIN raw.dict THEN raw.dict[key] ELSE PyNone
    ELSE Raise("TypeError", raw.kind)

\* The setattr calls of from_dict taken together: values[i] is what
\* names[i] is set to.  The first exception raised ends the call.
SetAttributes(cls, names, values) ==
    IF FirstRaise(values) # 0 THEN values[FirstRaise(values)]
    ELSE PyInstance(cls, [n \in Range(names) |->
                            values[CHOOSE i \in 1..Len(names) : names[i] = n]])

\* json.loads(json)["subsonic-response"]  (fields.py 38-39, responses.py 22-23)
_parse_json(json) ==
    IF "loads" \notin DOMAIN json THEN Raise("JSONDecodeError", "")
    ELSE IF IsRaise(json.loads) THEN json.loads
    ELSE Subscript(json.loads, "subsonic-response")

\* typing.get_origin / typing.get_args: None and () for anything that is not
\* a parameterized generic, a str included.
get_origin(tp) == IF tp.kind = "GenericAlias" THEN PyType(tp.origin) ELSE PyNone
get_args(tp) == IF tp.kind = "GenericAlias" THEN tp.args ELSE <<>>

\* datetime.fromisoformat: the timestamps the model's servers send parse.
fromisoformat(value) ==
    IF value.kind = "str" /\ "str" \in DOMAIN value
    THEN PyDatetime(value.str)
    ELSE Raise("TypeError", value.kind)

\* timedelta(seconds=value)
timedelta(value) ==
    IF value.kind \in {"int", "float"}
    THEN PyTimedelta(IF value.kind = "int" THEN value.int ELSE value.float)
    ELSE Raise("TypeError", value.kind)

---------------------------------------------------------------------------
(* fields.py: _Field                                                       *)

\* cls.__mro__ of a field class (fields.py 69)
fields_mro(cls) == <<cls, "_Field", "object">>

\* issubclass(cls, _Field) (fields.py 70, 93)
issubclass_Field(cls) == cls = "_Field" \/ cls \in Range(fields_classes)

\* fields.py 67-72: the annotations of every class of the MRO that subclasses
\* _Field, a later class's entry replacing an earlier one of the same name.
dict_update(all, more) ==
    LET At(seq, name) == {i \in 1..Len(seq) : seq[i][1] = name}
        IsNew(entry) == At(all, entry[1]) = {}
        replaced == [i \in 1..Len(all) |->
                        IF At(more, all[i][1]) = {} THEN all[i]
                        ELSE more[CHOOSE j \in At(more, all[i][1]) : TRUE]]
    IN  replaced \o SelectSeq(more, IsNew)

RECURSIVE all_annotations_from(_, _)
all_annotations_from(mro, all) ==
    IF mro = <<>> THEN all
    ELSE all_annotations_from(Tail(mro),
            IF issubclass_Field(Head(mro)) THEN dict_update(all, annotations_of(Head(mro)))
            ELSE all)

\* all_annotations of from_dict for every field class, each evaluated once.
all_annotations ==
    [cls \in Range(fields_classes) |-> all_annotations_from(fields_mro(cls), <<>>)]

\* fields.py 102-103: the class name made from an attribute name.
fields_class_name(variable_name) ==
    LET class_name == fields_snake_to_camel_case(variable_name)
    IN  char_upper(CharAt(class_name, 1)) \o SubSeq(class_name, 2, Len(class_name))

\* fields.py 42-43: globals()[f"{name}Field"].  The module-level names ending
\* in "Field" are the field classes and _Field itself.
fields_get_class(name) ==
    IF (name \o "Field") \in Range(fields_classes) \cup {"_Field"}
    THEN PyType(name \o "Field")
    ELSE Raise("KeyError", name \o "Field")

RECURSIVE Field(_, _), fields_from_dict(_, _), fields_value(_, _, _), fields_values(_, _),
          fields_items(_, _), fields_item_type(_, _), fields_deserialize(_, _, _, _),
          fields_call(_, _)

\* A list comprehension's value: the list made, or the first exception
\* raised while making it.
ListOrRaise(made) ==
    IF FirstRaise(made) # 0 THEN made[FirstRaise(made)] ELSE PyList(made)

\* fields.py 94: [item_type(item) for item in value]
fields_items(item_type, value) ==
    IF value.kind # "list" THEN Raise("TypeError", value.kind)
    ELSE ListOrRaise([i \in 1..Len(value.list) |-> Field(item_type, value.list[i])])

\* fields.py 92-94: item_type is get_args(base_type)[0]
fields_item_type(item_type, value) ==
    IF item_type.kind = "type" /\ issubclass_Field(item_type.name)
    THEN fields_items(item_type.name, value)
    ELSE value

\* fields.py 104: found(value), found being what _get_class returned or
\* raised.
fields_call(found, value) ==
    IF IsRaise(found) THEN found ELSE Field(found.name, value)

\* fields.py 85-106: value is what line 81 read (or an exception other than
\* KeyError on its way out); the result is what setattr stores.
fields_deserialize(variable_name, base_type, origin, value) ==
    IF IsRaise(value) THEN value
    ELSE IF value = PyNone THEN PyNone
    ELSE IF origin = PyType("list") THEN fields_item_type(get_args(base_type)[1], value)
    ELSE IF base_type = PyType("datetime") THEN fromisoformat(value)
    ELSE IF base_type = PyType("timedelta") THEN timedelta(value)
    ELSE IF value.kind = "dict"
         THEN fields_call(fields_get_class(fields_class_name(variable_name)), value)
    ELSE value

\* fields.py 77-106: what one attribute is set to, or the exception raised.
\* want_type is the annotation as all_annotations holds it.
fields_value(variable_name, want_type, raw) ==
    fields_deserialize(variable_name, want_type, get_origin(want_type),
                       SubscriptOrNone(raw, fields_external_key[variable_name]))

\* fields.py 77-106: the loop of from_dict, one value for each annotation.
\* The annotations are stored as text (fields.py 3), so each want_type is a
\* str.
fields_values(annotations, raw) ==
    [i \in 1..Len(annotations) |->
        fields_value(annotations[i][1], PyStr(annotations[i][2]), raw)]

\* fields.py 66-107: _Field.from_dict
fields_from_dict(cls, raw) ==
    SetAttributes(cls, annotations_keys(all_annotations[cls]),
                  fields_values(all_annotations[cls], raw))

\* fields.py 62-64: from_json, parsed being what _parse_json returned or
\* raised.
fields_from_json(cls, parsed) ==
    IF IsRaise(parsed) THEN parsed ELSE fields_from_dict(cls, parsed)

\* fields.py 47-54: _Field.__init__; the value of cls(data).
Field(cls, data) ==
    IF data.kind = "str" THEN fields_from_json(cls, _parse_json(data))
    ELSE IF data.kind = "dict" THEN fields_from_dict(cls, data)
    ELSE Raise("NotImplementedError", data.kind)

---------------------------------------------------------------------------
(* responses.py: _BaseResponse, SubsonicResponse, Error                    *)

IsLetter(c) == IndexIn(ascii_lowercase, c) > 0 \/ IndexIn(ascii_uppercase, c) > 0

\* str.title: a letter that follows a non-letter (or starts the string) is
\* upper-cased, every other letter lower-cased.
RECURSIVE str_title_from(_, _)
str_title_from(s, i) ==
    IF i > Len(s) THEN ""
    ELSE (IF i = 1 \/ ~IsLetter(CharAt(s, i - 1))
          THEN char_upper(CharAt(s, i)) ELSE char_lower(CharAt(s, i)))
         \o str_title_from(s, i + 1)

str_title(s) == str_title_from(s, 1)

\* responses.py 57: the class name made from an attribute name.
responses_class_name(variable_name) ==
    str_title(responses_camel_to_snake_case(variable_name))

\* responses.py 26-27: globals()[name].  Of the module's globals only its
\* classes can be named by a title-cased attribute name.
responses_get_class(name) ==
    IF name \in Range(responses_classes) \cup {"_BaseResponse"}
    THEN PyType(name)
    ELSE Raise("KeyError", name)

RECURSIVE BaseResponse(_, _), responses_from_dict(_, _), responses_value(_, _),
          responses_values(_, _), responses_isinstance_dict(_, _), responses_call(_, _)

\* responses.py 57: found(value), found being what _get_class returned or
\* raised.
responses_call(found, value) ==
    IF IsRaise(found) THEN found ELSE BaseResponse(found.name, value)

\* responses.py 55-59: value is what line 50 read (or an exception other
\* than KeyError on its way out); the result is what setattr stores.
responses_isinstance_dict(variable_name, value) ==
    IF IsRaise(value) THEN value
    ELSE IF value.kind = "dict"
         THEN responses_call(responses_get_class(responses_class_name(variable_name)), value)
    ELSE value

\* responses.py 49-57: what one attribute is set to, or the exception raised.
responses_value(variable_name, raw) ==
    responses_isinstance_dict(variable_name,
        SubscriptOrNone(raw, responses_external_key[variable_name]))

\* responses.py 48-59: the loop of from_dict, one value for each annotation.
responses_values(annotations, raw) ==
    [i \in 1..Len(annotations) |-> responses_value(annotations[i][1], raw)]

\* responses.py 47-59: _BaseResponse.from_dict, over the class's own
\* annotations.
responses_from_dict(cls, raw) ==
    SetAttributes(cls, annotations_keys(annotations_of(cls)),
                  responses_values(annotations_of(cls), raw))

\* responses.py 44-45: from_json, parsed being what _parse_json returned or
\* raised.
responses_from_json(cls, parsed) ==
    IF IsRaise(parsed) THEN parsed ELSE responses_from_dict(cls, parsed)

\* responses.py 35-42: _BaseResponse.__init__; the value of cls(data).
BaseResponse(cls, data) ==
    IF data.kind = "str" THEN responses_from_json(cls, _parse_json(data))
    ELSE IF data.kind = "dict" THEN responses_from_dict(cls, data)
    ELSE Raise("NotImplementedError", data.kind)

\* responses.py 87 comparing against "failure" instead: anything else is ok.
is_response_ok_unless_failure(response) ==
    IF "status" \in DOMAIN response.vars
    THEN PyBool(response.vars["status"] # PyStr("failure"))
    ELSE Raise("AttributeError", "status")

\* responses.py 81-87: SubsonicResponse.is_response_ok
is_response_ok(response) ==
    IF "status" \in DOMAIN response.vars
    THEN PyBool(response.vars["status"] = PyStr("ok"))
    ELSE Raise("AttributeError", "status")

---------------------------------------------------------------------------
(* Case converter calls.  A call starts from a name and applies the        *)
(* module's two converters in any order, MaxOps times at most.             *)

MaxOps == 2

\* The external key the replace of fields.py 28 is written for.
musicBrainzId == "musicBrainzId"

CaseInputs(module) ==
    IF module = "fields" THEN fields_names \cup {musicBrainzId}
    ELSE responses_names \cup {musicBrainzId}

to_external(module, s) ==
    IF module = "fields" THEN fields_snake_to_camel_case(s)
    ELSE responses_snake_to_camel_case(s)

to_internal(module, s) ==
    IF module = "fields" THEN fields_camel_to_snake_case(s)
    ELSE responses_camel_to_snake_case(s)

NoCall == [module |-> "none", kind |-> "none"]

CaseInit ==
    /\ \E module \in {"fields", "responses"} :
         \E input \in CaseInputs(module) :
            cc = [module |-> module, input |-> input, ops |-> <<>>, value |-> input]
    /\ mat = NoCall
    /\ self = NoCall
    /\ ctor = NoCall
    /\ sent = <<>>
    /\ outcome = NoCall

SnakeToCamel ==
    /\ cc.module \in {"fields", "responses"}
    /\ Len(cc.ops) < MaxOps
    /\ cc' = [cc EXCEPT !.ops = Append(@, "to_external"),
                        !.value = to_external(cc.module, cc.value)]
    /\ UNCHANGED <<mat, self, ctor, sent, outcome>>

CamelToSnake ==
    /\ cc.module \in {"fields", "responses"}
    /\ Len(cc.ops) < MaxOps
    /\ cc' = [cc EXCEPT !.ops = Append(@, "to_internal"),
                        !.value = to_internal(cc.module, cc.value)]
    /\ UNCHANGED <<mat, self, ctor, sent, outcome>>

CaseNext == SnakeToCamel \/ CamelToSnake

SpecCase == CaseInit /\ [][CaseNext]_vars

---------------------------------------------------------------------------
(* What the servers send.  declared_type reads an annotation's text the    *)
(* way evaluating it would (the shape, the element or record class, and    *)
(* whether None is allowed); it describes the inputs and the claims, the   *)
(* materializers above never use it.                                       *)

EndsWith(s, suffix) ==
    Len(s) >= Len(suffix) /\ SubSeq(s, Len(s) - Len(suffix) + 1, Len(s)) = suffix

declared_type(text) ==
    LET optional == EndsWith(text, " | None")
        base == IF optional THEN SubSeq(text, 1, Len(text) - Len(" | None")) ELSE text
        inner == SubSeq(base, Len("list[") + 1, Len(base) - 1)
    IN  CASE StartsWith(base, "list[") ->
                [shape |-> "list", of |-> inner, optional |-> optional]
          [] StartsWith(base, "Literal[") ->
                [shape |-> "Literal", of |-> base, optional |-> optional]
          [] StartsWith(base, "Annotated[float") ->
                [shape |-> "float", of |-> "float", optional |-> optional]
          [] base \in Range(fields_classes) \cup Range(responses_classes) ->
                [shape |-> "record", of |-> base, optional |-> optional]
          [] OTHER ->
                [shape |-> base, of |-> base, optional |-> optional]

\* The declared type of an attribute of a class.
declared(cls, variable_name) ==
    LET ann == annotations_of(cls)
    IN  declared_type(ann[CHOOSE i \in 1..Len(ann) : ann[i][1] = variable_name][2])

MaxList == 3      \* longest list a server sends
MaxPresent == 1   \* most keys present in a raw mapping

\* Every sequence over S of length MaxList at most.
RECURSIVE SeqsUpTo(_, _)
SeqsUpTo(S, n) ==
    IF n = 0 THEN {<<>>}
    ELSE LET shorter == SeqsUpTo(S, n - 1)
         IN  shorter \cup {Append(q, x) : q \in shorter, x \in S}

\* Two of the values a Literal annotation lists (fields.py 147, 171, 264,
\* 266, 309, 363, 380, 382; responses.py 65, 93).
LiteralSamples(base) ==
    CASE base = "Literal['ok', 'failure']" -> {PyStr("ok"), PyStr("failure")}
      [] base = "Literal[0, 10, 20, 30, 40, 41, 42, 43, 44, 50, 60, 70]" -> {PyInt(0), PyInt(40)}
      [] StartsWith(base, "Literal['explicit'") -> {PyStr("explicit"), PyStr("")}
      [] StartsWith(base, "Literal['music'") -> {PyStr("music"), PyStr("video")}
      [] StartsWith(base, "Literal['song'") -> {PyStr("song"), PyStr("artist")}
      [] OTHER -> {PyInt(1), PyInt(5)}

ScalarSamples(type) ==
    CASE type.shape = "str" -> {PyStr("a"), PyStr("b")}
      [] type.shape = "int" -> {PyInt(1), PyInt(125)}
      [] type.shape = "float" -> {PyFloat(1), PyFloat(5)}
      [] type.shape = "bool" -> {PyBool(TRUE), PyBool(FALSE)}
      [] type.shape = "timedelta" -> {PyInt(0), PyInt(125)}
      [] type.shape = "datetime" -> {PyStr("2024-01-02T03:04:05")}
      [] type.shape = "Literal" -> LiteralSamples(type.of)
      [] OTHER -> {}

\* The protocol's key for an attribute.
external_key(variable_name) ==
    IF variable_name \in fields_names THEN fields_external_key[variable_name]
    ELSE responses_external_key[variable_name]

\* JSON objects for a record class: its first declared key alone, with each
\* of that key's sample values.
ObjectSamples(cls) ==
    LET first == annotations_of(cls)[1]
    IN  {PyDict(external_key(first[1]) :> v) :
            v \in ScalarSamples(declared_type(first[2]))}

\* The JSON values a server sends for an attribute of this declared type:
\* null, or a value of the declared wire shape.
WireSamples(type) ==
    {PyNone} \cup
    CASE type.shape = "list" /\ type.of = "str" ->
            {PyList(q) : q \in SeqsUpTo({PyStr("a"), PyStr("b")}, MaxList)}
      [] type.shape = "list" ->
            {PyList(q) : q \in SeqsUpTo(ObjectSamples(type.of), MaxList)}
      [] type.shape = "record" ->
            {PyDict(EmptyMap)} \cup ObjectSamples(type.of)
      [] OTHER -> ScalarSamples(type)

\* For every class, each declared key with the values a server sends for it.
KeySamples ==
    [cls \in Range(fields_classes) \cup Range(responses_classes) |->
        [i \in 1..Len(annotations_of(cls)) |->
            [key |-> external_key(annotations_of(cls)[i][1]),
             values |-> WireSamples(declared_type(annotations_of(cls)[i][2]))]]]

\* The ways to pick n of a class's declared keys at most, each a sequence of
\* positions in declaration order, the first of them lo or later.
RECURSIVE KeyPicks(_, _, _)
KeyPicks(cls, n, lo) ==
    IF n = 0 THEN {<<>>}
    ELSE {<<>>} \cup
         UNION {{<<i>> \o rest : rest \in KeyPicks(cls, n - 1, i + 1)} :
                i \in lo..Len(KeySamples[cls])}

\* The raw mappings of a class with exactly the picked keys present, every
\* other key missing.
RECURSIVE RawMappings(_, _)
RawMappings(cls, picks) ==
    IF picks = <<>> THEN {EmptyMap}
    ELSE {(KeySamples[cls][Head(picks)].key :> v) @@ rest :
            v \in KeySamples[cls][Head(picks)].values,
            rest \in RawMappings(cls, Tail(picks))}

\* The error objects of a failure envelope: a code of the protocol's set or
\* beyond it (99), with or without message and helpUrl.
ErrorObjects ==
    {PyDict(("code" :> PyInt(code)) @@ message @@ help_url) :
        code \in {0, 40, 70, 99},
        message \in {EmptyMap, "message" :> PyStr("Wrong username or password")},
        help_url \in {EmptyMap, "helpUrl" :> PyStr("https://example.org/help")}}

\* The mappings under "subsonic-response": any of the declared keys missing.
Envelopes ==
    {status @@ version @@ type @@ open_subsonic @@ error :
        status \in {EmptyMap} \cup {"status" :> PyStr(s) : s \in {"ok", "failure", "failed"}},
        version \in {EmptyMap, "version" :> PyStr("1.16.1")},
        type \in {EmptyMap, ("type" :> PyStr("navidrome")) @@ ("serverVersion" :> PyStr("0.53.3"))},
        open_subsonic \in {EmptyMap, "openSubsonic" :> PyBool(TRUE)},
        error \in {EmptyMap, "error" :> PyNone} \cup {"error" :> e : e \in ErrorObjects}}

\* The text of a response: the envelope under its key.
EnvelopeText(envelope) == JsonText(PyDict("subsonic-response" :> PyDict(envelope)))

---------------------------------------------------------------------------
(* Materializer calls: cls(data), then is_response_ok() on a               *)
(* SubsonicResponse.                                                       *)

Pending == [kind |-> "pending"]

module_of(cls) == IF cls \in Range(fields_classes) THEN "fields" ELSE "responses"

MatCall(cls, data) ==
    [module |-> module_of(cls), class |-> cls, data |-> data, ret |-> Pending, ok |-> Pending]

\* Texts that are not a response: not JSON at all, a JSON document without
\* the "subsonic-response" key (an object, or no object), and one whose
\* "subsonic-response" is not an object.
MalformedTexts ==
    {PyStr("not json"),
     JsonText(PyDict(EmptyMap)),
     JsonText(PyDict("error" :> PyDict("code" :> PyInt(40)))),
     JsonText(PyList(<<>>)),
     JsonText(PyDict("subsonic-response" :> PyNone)),
     JsonText(PyDict("subsonic-response" :> PyStr("ok")))}

\* A key no class declares.
undeclaredKey == "undeclaredKey"

\* How a raw mapping reaches a class: as it is, with an undeclared key
\* holding a JSON object next to the declared ones, or as the text of a
\* response that holds it.
Carriers == {"mapping", "undeclared key", "text"}

Carried(raw, how) ==
    CASE how = "mapping" -> PyDict(raw)
      [] how = "undeclared key" -> PyDict(raw @@ (undeclaredKey :> PyDict("id" :> PyStr("1"))))
      [] how = "text" -> JsonText(PyDict("subsonic-response" :> PyDict(raw)))

\* What else a class is handed: an error code the protocol does not list; a
\* JSON object where a scalar is declared, at the top or inside the error
\* object; a text that is not a response; a value that is neither str nor
\* dict.
OtherInputs(cls) ==
    (IF "code" \in variable_names(cls) THEN {PyDict("code" :> PyInt(99))} ELSE {})
    \cup {PyDict(KeySamples[cls][1].key :> PyDict(EmptyMap))}
    \cup (IF "error" \in variable_names(cls)
          THEN {PyDict("error" :> PyDict("code" :> PyDict(EmptyMap)))} ELSE {})
    \cup MalformedTexts
    \cup {PyNone, PyInt(5), PyList(<<>>)}

\* A class of either module is handed a raw mapping, carried one way or
\* another, or one of the other inputs.
MatInit ==
    /\ \E cls \in Range(fields_classes) \cup Range(responses_classes) :
         \/ \E picks \in KeyPicks(cls, MaxPresent, 1) :
               \E raw \in RawMappings(cls, picks), how \in Carriers :
                  mat = MatCall(cls, Carried(raw, how))
         \/ \E data \in OtherInputs(cls) : mat = MatCall(cls, data)
    /\ cc = NoCall
    /\ self = NoCall
    /\ ctor = NoCall
    /\ sent = <<>>
    /\ outcome = NoCall

\* SubsonicResponse is handed the text of a response.
EnvelopeInit ==
    /\ \E envelope \in Envelopes : mat = MatCall("SubsonicResponse", EnvelopeText(envelope))
    /\ cc = NoCall
    /\ self = NoCall
    /\ ctor = NoCall
    /\ sent = <<>>
    /\ outcome = NoCall

Field_init ==
    /\ mat.module = "fields"
    /\ mat.ret = Pending
    /\ mat' = [mat EXCEPT !.ret = Field(mat.class, mat.data)]
    /\ UNCHANGED <<cc, self, ctor, sent, outcome>>

BaseResponse_init ==
    /\ mat.module = "responses"
    /\ mat.ret = Pending
    /\ mat' = [mat EXCEPT !.ret = BaseResponse(mat.class, mat.data)]
    /\ UNCHANGED <<cc, self, ctor, sent, outcome>>

SubsonicResponse_is_response_ok ==
    /\ mat.module = "responses"
    /\ mat.class = "SubsonicResponse"
    /\ mat.ret.kind = "instance"
    /\ mat.ok = Pending
    /\ mat' = [mat EXCEPT !.ok = is_response_ok(mat.ret)]
    /\ UNCHANGED <<cc, self, ctor, sent, outcome>>

MatNext == Field_init \/ BaseResponse_init \/ SubsonicResponse_is_response_ok

SpecMaterialize == MatInit /\ [][MatNext]_vars

EnvelopeNext == BaseResponse_init \/ SubsonicResponse_is_response_ok

SpecEnvelope == EnvelopeInit /\ [][EnvelopeNext]_vars

---------------------------------------------------------------------------
(* __init__.py: OpenSubsonic                                               *)

\* string.printable (__init__.py 5, 198): digits, letters, punctuation,
\* whitespace, 100 characters.  A TLA+ string cannot hold a backquote: the
\* character DEL (0x7f), which printable lacks, stands in its place between
\* "_" and "{".  The whitespace is space, \t, \n, \r, VT (0x0b), \f.
digits == "0123456789"
punctuation == "!\"#$%&'()*+,-./:;<=>?@[\\]^_{|}~"
whitespace == " \t\n\r\f"
printable == digits \o ascii_lowercase \o ascii_uppercase \o punctuation \o whitespace

salt_length == 16      \* __init__.py 197: range(16)

\* __init__.py 194-199: _get_salt.  draws[i] is the position in printable
\* that the i-th call of secrets.choice picks.
RECURSIVE salt_from(_, _)
salt_from(draws, i) ==
    IF i > salt_length THEN ""
    ELSE CharAt(printable, draws[i]) \o salt_from(draws, i + 1)

_get_salt(draws) == salt_from(draws, 1)

\* hashlib.md5(data).hexdigest(): a str fixed by the bytes hashed, different
\* for different bytes.  str.encode("utf-8") keeps the text (the digest is
\* named by the text hashed).
md5_hexdigest(data) == [kind |-> "str", md5_hexdigest_of |-> data]

\* __init__.py 202-204 hashing the salt before the password
_get_token_salt_first(password, salt) == md5_hexdigest(salt \o password)

\* __init__.py 201-204: _get_token
_get_token(password, salt) == md5_hexdigest(password \o salt)

\* httpx.Client(base_url=...) (__init__.py 61)
Client(base_url) == [kind |-> "Client", base_url |-> base_url]

\* __init__.py 56-61 keeping the password on the instance as well
OpenSubsonic_attributes_with_password(client, url, username, password, draws) ==
    LET _salt == _get_salt(draws)
    IN  ("client" :> PyStr(client)) @@ ("username" :> PyStr(username))
        @@ ("_salt" :> PyStr(_salt)) @@ ("_token" :> _get_token(password, _salt))
        @@ ("_client" :> Client(url \o "/rest")) @@ ("_password" :> PyStr(password))

\* __init__.py 56-61: the attributes __init__ sets, before the probe.
OpenSubsonic_attributes(client, url, username, password, draws) ==
    LET _salt == _get_salt(draws)
    IN  ("client" :> PyStr(client)) @@ ("username" :> PyStr(username))
        @@ ("_salt" :> PyStr(_salt)) @@ ("_token" :> _get_token(password, _salt))
        @@ ("_client" :> Client(url \o "/rest"))

\* __init__.py 168-177: _get_params; a keyword argument replaces a fixed
\* entry of the same key.
_get_params(obj, kwargs) ==
    kwargs @@ ("u" :> obj["username"]) @@ ("t" :> obj["_token"]) @@ ("s" :> obj["_salt"])
           @@ ("v" :> PyStr("1.16.1")) @@ ("c" :> obj["client"]) @@ ("f" :> PyStr("json"))

\* __init__.py 179-182: the GET _authenticated_request_to hands to the
\* transport; httpx joins the path to the client's base_url.
_authenticated_request_to(obj, endpoint, kwargs) ==
    [method |-> "GET",
     url |-> obj["_client"].base_url \o "/" \o endpoint,
     params |-> _get_params(obj, kwargs)]

\* The keyword arguments each endpoint method passes on.
\* __init__.py 85
add_chat_message_kwargs(message) == "message" :> PyStr(message)

\* __init__.py 104-106
change_password_kwargs(username, password) ==
    ("username" :> PyStr(username)) @@ ("password" :> PyStr(password))

\* __init__.py 125-132 passing the comment under the key "c"
create_bookmark_kwargs_comment_as_c(id, position, comment) ==
    IF comment = PyNone
    THEN ("id" :> PyStr(id)) @@ ("position" :> position)
    ELSE ("id" :> PyStr(id)) @@ ("position" :> position) @@ ("c" :> comment)

\* __init__.py 125-132
create_bookmark_kwargs(id, position, comment) ==
    IF comment = PyNone
    THEN ("id" :> PyStr(id)) @@ ("position" :> position)
    ELSE ("id" :> PyStr(id)) @@ ("position" :> position) @@ ("comment" :> comment)

\* __init__.py 147
download_kwargs(id) == "id" :> PyStr(id)

---------------------------------------------------------------------------
(* The transport (httpx) and the server behind it                          *)

PyBytes(b) == [kind |-> "bytes", bytes |-> b]

\* An httpx.Response; header names are kept lower-cased, as httpx compares
\* them.
Response(text, content, headers) ==
    [kind |-> "Response", text |-> text, content |-> content, headers |-> headers]

\* response.headers[name]: case-insensitive, KeyError when absent.
headers_getitem(headers, name) ==
    IF str_lower(name) \in DOMAIN headers THEN PyStr(headers[str_lower(name)])
    ELSE Raise("KeyError", name)

\* sub in s, for str
Contains(s, sub) ==
    \E i \in 1..(Len(s) - Len(sub) + 1) : SubSeq(s, i, i + Len(sub) - 1) = sub

OkEnvelope == ("status" :> PyStr("ok")) @@ ("version" :> PyStr("1.16.1"))

FailureEnvelope ==
    ("status" :> PyStr("failure")) @@ ("version" :> PyStr("1.16.1"))
    @@ ("error" :> PyDict(("code" :> PyInt(40))
                          @@ ("message" :> PyStr("Wrong username or password"))))

\* What a GET comes back with: the transport's own error, a JSON envelope,
\* an envelope sent with the header download looks for, or media bytes.
Replies ==
    {Raise("ConnectError", "All connection attempts failed")}
    \cup {Response(EnvelopeText(e), PyBytes("envelope"),
                   "content-type" :> "application/json") : e \in {OkEnvelope, FailureEnvelope}}
    \cup {Response(EnvelopeText(FailureEnvelope), PyBytes("envelope"),
                   ("content-type" :> "application/json") @@ ("accept" :> "application/xml")),
          Response(PyStr("ID3"), PyBytes("ID3"), "content-type" :> "audio/mpeg"),
          Response(PyStr("ID3"), PyBytes("ID3"),
                   ("content-type" :> "audio/mpeg") @@ ("accept" :> "*/*"))}

---------------------------------------------------------------------------
(* OpenSubsonic: construction and the endpoint methods                     *)

MaxRequests == 3   \* most requests sent in a behaviour
MaxSalts == 2      \* how many outcomes of the random source are tried

ClientNames == {"pysonic testing"}
Urls == {"http://localhost:4533"}
Usernames == {"alice"}
Passwords == {"secret", "hunter2"}
NewPasswords == {"secret", "correct horse"}
Messages == {"pysonic test message"}
Ids == {"1"}
Positions == {PyFloat(0)}
Comments == {PyNone, PyStr("intro")}

\* Outcomes of the salt_length calls of secrets.choice(printable).
Draws ==
    {[i \in 1..salt_length |-> ((31 * seed + 7 * i) % Len(printable)) + 1] :
        seed \in 1..MaxSalts}

NoClient == NoCall

\* The same, turning what the transport raised into the library's
\* ConnectionError.
SubsonicResponse_transport_error_wrapped(reply) ==
    IF IsRaise(reply) THEN Raise("ConnectionError", "Failed to connect to OpenSubsonic")
    ELSE BaseResponse("SubsonicResponse", reply.text)

\* self._authenticated_request_to(...) raised, or
\* responses.SubsonicResponse(request.text)
SubsonicResponse(reply) ==
    IF IsRaise(reply) THEN reply ELSE BaseResponse("SubsonicResponse", reply.text)

\* One entry of sent: the request, and the call that made it.
Logged(call, request) ==
    [call |-> call, method |-> request.method, url |-> request.url, params |-> request.params]

\* No request was made, so nothing came back.
NoReply == NoCall

\* What a call returned or raised, and what the transport had answered.
Outcome(call, reply, result) == [call |-> call, reply |-> reply, result |-> result]

\* __init__.py 63-67 without the raise: the probe's answer is not looked at.
OpenSubsonic_init_probe_ignored(client, url, username, password, test_connection, draws, reply) ==
    /\ ctor = NoCall
    /\ ctor' = [client |-> client, url |-> url, username |-> username,
                password |-> password, test_connection |-> test_connection,
                draws |-> draws]
    /\ LET obj == OpenSubsonic_attributes(client, url, username, password, draws)
           ping_response == SubsonicResponse(reply)
       IN  IF ~test_connection
           THEN /\ self' = [kind |-> "OpenSubsonic", vars |-> obj]
                /\ sent' = sent
                /\ outcome' = Outcome("__init__", NoReply, PyNone)
           ELSE /\ Len(sent) < MaxRequests
                /\ sent' = Append(sent, Logged(<<"ping">>,
                                    _authenticated_request_to(obj, "ping", EmptyMap)))
                /\ IF IsRaise(ping_response)
                   THEN /\ self' = self
                        /\ outcome' = Outcome("__init__", reply, ping_response)
                   ELSE /\ self' = [kind |-> "OpenSubsonic", vars |-> obj]
                        /\ outcome' = Outcome("__init__", reply, PyNone)
    /\ UNCHANGED <<cc, mat>>

\* __init__.py 35-67: OpenSubsonic.__init__.  With test_connection the probe
\* is one ping; whatever it raises leaves the caller without a client.
OpenSubsonic_init(client, url, username, password, test_connection, draws, reply) ==
    /\ ctor = NoCall
    /\ ctor' = [client |-> client, url |-> url, username |-> username,
                password |-> password, test_connection |-> test_connection,
                draws |-> draws]
    /\ LET obj == OpenSubsonic_attributes(client, url, username, password, draws)
           ping_response == SubsonicResponse(reply)
       IN  IF ~test_connection
           THEN /\ self' = [kind |-> "OpenSubsonic", vars |-> obj]
                /\ sent' = sent
                /\ outcome' = Outcome("__init__", NoReply, PyNone)
           ELSE /\ Len(sent) < MaxRequests
                /\ sent' = Append(sent, Logged(<<"ping">>,
                                    _authenticated_request_to(obj, "ping", EmptyMap)))
                /\ IF IsRaise(ping_response)
                   THEN /\ self' = self
                        /\ outcome' = Outcome("__init__", reply, ping_response)
                   ELSE IF is_response_ok(ping_response) # PyBool(TRUE)
                   THEN /\ self' = self
                        /\ outcome' = Outcome("__init__", reply,
                               Raise("ConnectionError", "Failed to connect to OpenSubsonic"))
                   ELSE /\ self' = [kind |-> "OpenSubsonic", vars |-> obj]
                        /\ outcome' = Outcome("__init__", reply, PyNone)
    /\ UNCHANGED <<cc, mat>>

Constructed == self # NoClient

\* __init__.py 75-86
add_chat_message(message, reply) ==
    /\ Constructed
    /\ Len(sent) < MaxRequests
    /\ sent' = Append(sent, Logged(<<"add_chat_message", message>>,
                        _authenticated_request_to(self.vars, "addChatMessage",
                                                  add_chat_message_kwargs(message))))
    /\ outcome' = Outcome("add_chat_message", reply, SubsonicResponse(reply))
    /\ UNCHANGED <<cc, mat, self, ctor>>

\* __init__.py 88-107
change_password(username, password, reply) ==
    /\ Constructed
    /\ Len(sent) < MaxRequests
    /\ sent' = Append(sent, Logged(<<"change_password", username, password>>,
                        _authenticated_request_to(self.vars, "addChatMessage",
                                                  change_password_kwargs(username, password))))
    /\ outcome' = Outcome("change_password", reply, SubsonicResponse(reply))
    /\ UNCHANGED <<cc, mat, self, ctor>>

\* __init__.py 109-133
create_bookmark(id, position, comment, reply) ==
    /\ Constructed
    /\ Len(sent) < MaxRequests
    /\ sent' = Append(sent, Logged(<<"create_bookmark", id, position, comment>>,
                        _authenticated_request_to(self.vars, "createBookmark",
                                                  create_bookmark_kwargs(id, position, comment))))
    /\ outcome' = Outcome("create_bookmark", reply, SubsonicResponse(reply))
    /\ UNCHANGED <<cc, mat, self, ctor>>

\* __init__.py 135-154
download(id, reply) ==
    /\ Constructed
    /\ Len(sent) < MaxRequests
    /\ sent' = Append(sent, Logged(<<"download", id>>,
                        _authenticated_request_to(self.vars, "download", download_kwargs(id))))
    /\ outcome' = Outcome("download", reply,
          IF IsRaise(reply) THEN reply
          ELSE LET accept == headers_getitem(reply.headers, "Accept")
               IN  IF IsRaise(accept) THEN accept
                   ELSE IF Contains(accept.str, "application/xml")
                   THEN SubsonicResponse(reply)
                   ELSE reply.content)
    /\ UNCHANGED <<cc, mat, self, ctor>>

\* __init__.py 156-164
ping(reply) ==
    /\ Constructed
    /\ Len(sent) < MaxRequests
    /\ sent' = Append(sent, Logged(<<"ping">>,
                        _authenticated_request_to(self.vars, "ping", EmptyMap)))
    /\ outcome' = Outcome("ping", reply, SubsonicResponse(reply))
    /\ UNCHANGED <<cc, mat, self, ctor>>

Init ==
    /\ self = NoClient
    /\ ctor = NoCall
    /\ sent = <<>>
    /\ outcome = NoCall
    /\ cc = NoCall
    /\ mat = NoCall

Next ==
    \E reply \in Replies :
        \/ \E client \in ClientNames, url \in Urls, username \in Usernames,
              password \in Passwords, test_connection \in BOOLEAN, draws \in Draws :
                OpenSubsonic_init(client, url, username, password, test_connection,
                                  draws, reply)
        \/ \E message \in Messages : add_chat_message(message, reply)
        \/ \E username \in Usernames, password \in NewPasswords :
                change_password(username, password, reply)
        \/ \E id \in Ids, position \in Positions, comment \in Comments :
                create_bookmark(id, position, comment, reply)
        \/ \E id \in Ids : download(id, reply)
        \/ ping(reply)

Spec == Init /\ [][Next]_vars

---------------------------------------------------------------------------
(* Claims about the materializers, checked under SpecMaterialize (a raw    *)
(* mapping handed to any class) and SpecEnvelope (a response's text handed *)
(* to SubsonicResponse)                                                    *)

\* cls(data) as the class's module runs it.
Materialized(cls, data) ==
    IF module_of(cls) = "fields" THEN Field(cls, data) ELSE BaseResponse(cls, data)

\* A class was handed a raw mapping and the call is over.
MappingDone ==
    /\ mat.module \in {"fields", "responses"}
    /\ mat.data.kind = "dict"
    /\ mat.ret # Pending

\* C1: for every class of the registry and every raw mapping with any of
\* the declared keys missing, materialization does not raise and every
\* attribute whose key is missing is None on the instance.
C1_TotalOverAbsence ==
    MappingDone =>
        /\ mat.ret.kind = "instance"
        /\ \A n \in variable_names(mat.class) :
              external_key(n) \notin DOMAIN mat.data.dict => mat.ret.vars[n] = PyNone

\* C3: an attribute declared list-of-record, given a list of n JSON objects,
\* holds a list of n elements in input order, each the element class
\* materialized from the corresponding object.
C3_ListOfRecord ==
    MappingDone =>
        \A n \in variable_names(mat.class) :
            LET type == declared(mat.class, n)
                key == external_key(n)
                raw == mat.data.dict
            IN  (/\ type.shape = "list"
                 /\ type.of # "str"
                 /\ key \in DOMAIN raw
                 /\ raw[key].kind = "list")
                => /\ mat.ret.kind = "instance"
                   /\ mat.ret.vars[n].kind = "list"
                   /\ Len(mat.ret.vars[n].list) = Len(raw[key].list)
                   /\ \A i \in 1..Len(raw[key].list) :
                         mat.ret.vars[n].list[i] = Materialized(type.of, raw[key].list[i])

\* C4: an attribute declared timedelta (required or optional), given the raw
\* integer n, holds a duration of n seconds.
C4_Duration ==
    MappingDone =>
        \A n \in variable_names(mat.class) :
            LET type == declared(mat.class, n)
                key == external_key(n)
                raw == mat.data.dict
            IN  (/\ type.shape = "timedelta"
                 /\ key \in DOMAIN raw
                 /\ raw[key].kind = "int")
                => /\ mat.ret.kind = "instance"
                   /\ mat.ret.vars[n] = PyTimedelta(raw[key].int)

\* The class the module resolves for an attribute that holds a JSON object.
resolved_class(module, variable_name) ==
    IF module = "fields" THEN fields_get_class(fields_class_name(variable_name))
    ELSE responses_get_class(responses_class_name(variable_name))

\* C5: an attribute declared with a record class, given a JSON object: the
\* class resolved from the attribute's name is registered, materialization
\* succeeds, and the attribute holds the declared class built from the object.
C5_NestedRecord ==
    MappingDone =>
        \A n \in variable_names(mat.class) :
            LET type == declared(mat.class, n)
                key == external_key(n)
                raw == mat.data.dict
            IN  (/\ type.shape = "record"
                 /\ key \in DOMAIN raw
                 /\ raw[key].kind = "dict")
                => /\ ~IsRaise(resolved_class(mat.module, n))
                   /\ mat.ret.kind = "instance"
                   /\ mat.ret.vars[n] = Materialized(type.of, raw[key])

\* SubsonicResponse was handed the text of an envelope and the call is over.
EnvelopeDone ==
    /\ mat.module = "responses"
    /\ mat.class = "SubsonicResponse"
    /\ mat.data.kind = "str"
    /\ mat.ret # Pending

\* The mapping under "subsonic-response" in the text handed in.
envelope_of(data) == data.loads.dict["subsonic-response"].dict

HasStatus(envelope, s) == "status" \in DOMAIN envelope /\ envelope["status"] = PyStr(s)

\* C2: for every envelope text materialized as SubsonicResponse,
\* is_response_ok() returns True exactly when status is "ok" and never
\* raises; without an error object error is None; with status "failure" and
\* an error object materialization does not raise and error is an Error whose
\* code is the raw code.
C2_Envelope ==
    EnvelopeDone =>
        LET envelope == envelope_of(mat.data)
        IN  /\ mat.ret.kind = "instance"
            /\ mat.ok # Pending => mat.ok = PyBool(HasStatus(envelope, "ok"))
            /\ "error" \notin DOMAIN envelope => mat.ret.vars["error"] = PyNone
            /\ (/\ HasStatus(envelope, "failure")
                /\ "error" \in DOMAIN envelope
                /\ envelope["error"].kind = "dict")
               => /\ mat.ret.vars["error"].kind = "instance"
                  /\ mat.ret.vars["error"].class = "Error"
                  /\ mat.ret.vars["error"].vars["code"] = envelope["error"].dict["code"]

\* C2 witness: a failure envelope with error code 40 was materialized and
\* is_response_ok() returned False.
C2_Witness ==
    /\ EnvelopeDone
    /\ HasStatus(envelope_of(mat.data), "failure")
    /\ mat.ok = PyBool(FALSE)
    /\ mat.ret.vars["error"].kind = "instance"
    /\ mat.ret.vars["error"].vars["code"] = PyInt(40)
    /\ mat.ret.vars["error"].vars["message"] = PyStr("Wrong username or password")

---------------------------------------------------------------------------
(* Claims about the case converter, checked under SpecCase                 *)

RoundTripDone ==
    /\ cc.module \in {"fields", "responses"}
    /\ cc.ops = <<"to_external", "to_internal">>
    /\ cc.input \in (IF cc.module = "fields" THEN fields_names ELSE responses_names)

\* C6: for every internal name declared in the registry of fields.py and of
\* responses.py, to_internal(to_external(name)) = name.
C6_RoundTrip == RoundTripDone => cc.value = cc.input

\* C6 witness: the round trip was run on a three-word name of fields.py and
\* on a two-word name of responses.py.
C6_Witness ==
    /\ RoundTripDone
    /\ cc.input \in {"original_release_date", "open_subsonic"}
    /\ cc.value = cc.input

\* C7: _camel_to_snake_case of fields.py keeps the compound token
\* "musicBrainz" joined: "musicBrainzId" becomes "musicbrainz_id", the name
\* the registry declares, not "music_brainz_id".
C7_MusicBrainzJoined ==
    (/\ cc.module = "fields"
     /\ cc.input = musicBrainzId
     /\ cc.ops = <<"to_internal">>)
    => cc.value = "musicbrainz_id"

---------------------------------------------------------------------------
(* Claims about the client, checked under Spec                             *)

\* The keys every authenticated request carries.
FixedKeys == {"u", "t", "s", "v", "c", "f"}

\* The salt and the token derived from the constructor's arguments: sixteen
\* draws from printable, and the digest of the password followed by the salt.
SaltDrawn == [draws \in Draws |-> _get_salt(draws)]
ConstructionSalt == SaltDrawn[ctor.draws]
ConstructionToken == md5_hexdigest(ctor.password \o ConstructionSalt)

\* The endpoint-specific parameters of a call, from its name and arguments.
EndpointParams(call) ==
    CASE call[1] = "add_chat_message" -> "message" :> PyStr(call[2])
      [] call[1] = "change_password"  ->
            ("username" :> PyStr(call[2])) @@ ("password" :> PyStr(call[3]))
      [] call[1] = "create_bookmark"  ->
            IF call[4] = PyNone
            THEN ("id" :> PyStr(call[2])) @@ ("position" :> call[3])
            ELSE ("id" :> PyStr(call[2])) @@ ("position" :> call[3])
                 @@ ("comment" :> call[4])
      [] call[1] = "download"         -> "id" :> PyStr(call[2])
      [] call[1] = "ping"             -> EmptyMap

\* The fixed entries, as the constructor's arguments determine them.
FixedParams ==
    ("u" :> PyStr(ctor.username)) @@ ("t" :> ConstructionToken)
    @@ ("s" :> PyStr(ConstructionSalt)) @@ ("v" :> PyStr("1.16.1"))
    @@ ("c" :> PyStr(ctor.client)) @@ ("f" :> PyStr("json"))

\* request carries the fixed entries and exactly the call's own parameters.
CarriesExactly(request) ==
    /\ request.method = "GET"
    /\ DOMAIN EndpointParams(request.call) \cap FixedKeys = {}
    /\ DOMAIN request.params = FixedKeys \cup DOMAIN EndpointParams(request.call)
    /\ \A k \in FixedKeys : request.params[k] = FixedParams[k]
    /\ \A k \in DOMAIN EndpointParams(request.call) :
          request.params[k] = EndpointParams(request.call)[k]

\* C8: every call of an endpoint method (add_chat_message, change_password,
\* create_bookmark, download, ping), with any arguments, issues one GET; its
\* query holds u=username, t=token, s=salt, v="1.16.1", c=client name,
\* f="json" and exactly the endpoint's own parameters, none of which uses a
\* fixed key.
C8_RequestParams ==
    /\ \A i \in DOMAIN sent : CarriesExactly(sent[i])
    /\ outcome # NoCall =>
          IF outcome.call = "__init__"
          THEN Len(sent) = (IF ctor.test_connection THEN 1 ELSE 0)
          ELSE /\ sent # <<>>
               /\ sent[Len(sent)].call[1] = outcome.call

\* C8 witness: create_bookmark was called with a comment and change_password
\* with a new password, and each request went out with its own parameters
\* next to the fixed ones.
C8_Witness ==
    \E i, j \in DOMAIN sent :
        /\ sent[i].call[1] = "create_bookmark"
        /\ "comment" \in DOMAIN sent[i].params
        /\ sent[i].params["comment"] = PyStr("intro")
        /\ sent[i].params["c"] = PyStr(ctor.client)
        /\ sent[j].call[1] = "change_password"
        /\ sent[j].params["password"] = PyStr("correct horse")

\* The characters of printable.
PrintableCharacters == {CharAt(printable, j) : j \in 1..Len(printable)}

\* s is sixteen characters of printable.
IsSalt(s) ==
    /\ Len(s) = 16
    /\ \A k \in 1..Len(s) : CharAt(s, k) \in PrintableCharacters

\* C9: the salt is generated once, at construction, sixteen characters of
\* printable; the token is the hex MD5 digest of the password followed by the
\* salt; a constructed client keeps both, and every request sent (the
\* constructor's ping and change_password with another password included)
\* carries that salt and that token.
C9_AuthContextFixed ==
    /\ ctor # NoCall => IsSalt(ConstructionSalt)
    /\ Constructed =>
          /\ self.vars["_salt"] = PyStr(ConstructionSalt)
          /\ self.vars["_token"] = ConstructionToken
    /\ \A i \in DOMAIN sent :
          /\ sent[i].params["s"] = PyStr(ConstructionSalt)
          /\ sent[i].params["t"] = ConstructionToken

\* C9 witness: the constructor's ping succeeded, change_password was then
\* called with a password other than the constructor's, and a request
\* followed it.
C9_Witness ==
    /\ Constructed
    /\ ctor.test_connection
    /\ Len(sent) >= 3
    /\ sent[1].call = <<"ping">>
    /\ sent[2].call[1] = "change_password"
    /\ sent[2].call[3] # ctor.password
    /\ sent[3].params["t"] = md5_hexdigest(ctor.password \o sent[1].params["s"].str)

\* C10: a constructed client, with or without the probe and after any
\* endpoint calls, has the attributes client, username, _salt, _token and
\* _client and no other, and none of them holds the constructor's password.
C10_PasswordNotStored ==
    Constructed =>
        /\ DOMAIN self.vars = {"client", "username", "_salt", "_token", "_client"}
        /\ \A a \in DOMAIN self.vars : self.vars[a] # PyStr(ctor.password)
        /\ self.vars["client"] = PyStr(ctor.client)
        /\ self.vars["username"] = PyStr(ctor.username)
        /\ self.vars["_client"] = Client(ctor.url \o "/rest")

\* C10 witness: a client built without the probe was asked to change the
\* password to the very password it was built with, and was used again.
C10_Witness ==
    /\ Constructed
    /\ ~ctor.test_connection
    /\ Len(sent) >= 2
    /\ sent[1].call = <<"change_password", ctor.username, ctor.password>>
    /\ outcome.call # "change_password"

\* The constructor has just returned or raised.
ConstructionOver == outcome # NoCall /\ outcome.call = "__init__"

\* The transport answered and the answer reads as an envelope.
IsEnvelopeReply(reply) ==
    /\ reply.kind = "Response"
    /\ "loads" \in DOMAIN reply.text

\* The ping came back with a response whose is_response_ok() is False.
PingNotOk(reply) ==
    /\ IsEnvelopeReply(reply)
    /\ ~HasStatus(envelope_of(reply.text), "ok")

\* C11: with test_connection, construction issues exactly one request, a
\* ping, and raises ConnectionError, leaving no client, exactly when the
\* ping's response is not ok; without test_connection, construction issues no
\* request and succeeds.
C11_ConnectivityProbe ==
    ConstructionOver =>
        IF ctor.test_connection
        THEN /\ Len(sent) = 1
             /\ sent[1].call = <<"ping">>
             /\ sent[1].url = ctor.url \o "/rest/ping"
             /\ (outcome.result = Raise("ConnectionError", "Failed to connect to OpenSubsonic"))
                    <=> PingNotOk(outcome.reply)
             /\ PingNotOk(outcome.reply) => ~Constructed
             /\ Constructed <=> outcome.result = PyNone
             /\ (IsEnvelopeReply(outcome.reply) /\ ~PingNotOk(outcome.reply)) => Constructed
        ELSE /\ sent = <<>>
             /\ Constructed
             /\ outcome.result = PyNone

\* C11 witness: the probe ran, the server answered with a failure envelope,
\* and the constructor raised ConnectionError after its one ping.
C11_Witness ==
    /\ ConstructionOver
    /\ ctor.test_connection
    /\ PingNotOk(outcome.reply)
    /\ outcome.result.kind = "raise"
    /\ outcome.result.exception = "ConnectionError"
    /\ ~Constructed
    /\ Len(sent) = 1

\* C12: when the transport raises during a request, the constructor's ping
\* included, the call raises that same error, not ConnectionError and not a
\* response, after the one request it made: nothing is sent again, and a
\* constructor so interrupted leaves no client.
C12_TransportErrorPropagates ==
    [][IsRaise(outcome'.reply) =>
          /\ outcome'.result = outcome'.reply
          /\ outcome'.result.exception = "ConnectError"
          /\ Len(sent') = Len(sent) + 1
          /\ SubSeq(sent', 1, Len(sent)) = sent
          /\ sent'[Len(sent')].call[1] = (IF outcome'.call = "__init__" THEN "ping"
                                          ELSE outcome'.call)
          /\ self' = self]_vars

\* C12 witness: the transport refused the constructor's ping; the caller got
\* the transport's ConnectError after one request and has no client.
C12_Witness ==
    /\ ConstructionOver
    /\ IsRaise(outcome.reply)
    /\ outcome.result = Raise("ConnectError", "All connection attempts failed")
    /\ Len(sent) = 1
    /\ ~Constructed

\* download has just returned or raised, and the transport had answered.
DownloadAnswered ==
    /\ outcome # NoCall
    /\ outcome.call = "download"
    /\ outcome.reply.kind = "Response"

\* The response carries the header download looks for, and it names XML.
SignalsXml(reply) ==
    /\ "accept" \in DOMAIN reply.headers
    /\ Contains(reply.headers["accept"], "application/xml")

\* C13: download returns a SubsonicResponse made from the payload, carrying
\* the error, when the response's header signals XML; for every other
\* response, one without that header included, it returns the raw bytes and
\* raises nothing.
C13_DownloadByHeader ==
    DownloadAnswered =>
        IF SignalsXml(outcome.reply)
        THEN /\ outcome.result.kind = "instance"
             /\ outcome.result.class = "SubsonicResponse"
             /\ outcome.result.vars["error"].kind = "instance"
        ELSE /\ ~IsRaise(outcome.result)
             /\ outcome.result = outcome.reply.content

\* The protocol endpoint each method is documented to implement.
DocumentedEndpoint(method) ==
    CASE method = "add_chat_message" -> "addChatMessage"
      [] method = "change_password"  -> "changePassword"
      [] method = "create_bookmark"  -> "createBookmark"
      [] method = "download"         -> "download"
      [] method = "ping"             -> "ping"

\* C14: every request goes to {base_url}/rest/{endpoint}, the endpoint being
\* the one its method is documented to implement (addChatMessage,
\* changePassword, createBookmark, download, ping), and requests of two
\* different methods never go to the same path.
C14_EndpointPaths ==
    /\ \A i \in DOMAIN sent :
          sent[i].url = ctor.url \o "/rest/" \o DocumentedEndpoint(sent[i].call[1])
    /\ \A i, j \in DOMAIN sent :
          sent[i].call[1] # sent[j].call[1] => sent[i].url # sent[j].url

---------------------------------------------------------------------------
(* Claims about how materialization fails, checked under SpecMaterialize   *)

\* cls(data) has returned or raised.
MaterializeDone ==
    /\ mat.module \in {"fields", "responses"}
    /\ mat.ret # Pending

\* data is a str that json.loads reads.
IsJson(data) == data.kind = "str" /\ "loads" \in DOMAIN data

\* data is a JSON text whose document has no "subsonic-response" key.
LacksEnvelopeKey(data) ==
    /\ IsJson(data)
    /\ \/ data.loads.kind # "dict"
       \/ "subsonic-response" \notin DOMAIN data.loads.dict

\* data is a mapping, or a JSON text with an object under "subsonic-response".
HoldsMapping(data) ==
    \/ data.kind = "dict"
    \/ /\ IsJson(data)
       /\ ~LacksEnvelopeKey(data)
       /\ data.loads.dict["subsonic-response"].kind = "dict"

\* The mapping from_dict works on.
MappingOf(data) ==
    IF data.kind = "dict" THEN data.dict ELSE envelope_of(data)

\* Some attribute of cls has a JSON object as its raw value and the class
\* resolved from the attribute's name is not registered, in raw itself or in
\* an object below it that resolves.
RECURSIVE UnresolvedObject(_, _)
UnresolvedObject(cls, raw) ==
    \E n \in variable_names(cls) :
        /\ external_key(n) \in DOMAIN raw
        /\ raw[external_key(n)].kind = "dict"
        /\ \/ IsRaise(resolved_class(module_of(cls), n))
           \/ UnresolvedObject(resolved_class(module_of(cls), n).name,
                               raw[external_key(n)].dict)

\* C15 as stated: materialization raises only for (a) a string whose decoded
\* JSON lacks the "subsonic-response" key and (b) an attribute whose raw
\* value is a JSON object of an unregistered class, where the lookup error
\* reaches the caller; every other str or mapping materializes.
C15_FailsOnlyTwoWays ==
    (MaterializeDone /\ mat.data.kind \in {"str", "dict"}) =>
        /\ IsRaise(mat.ret) =>
              \/ LacksEnvelopeKey(mat.data)
              \/ HoldsMapping(mat.data) /\ UnresolvedObject(mat.class, MappingOf(mat.data))
        /\ (HoldsMapping(mat.data) /\ UnresolvedObject(mat.class, MappingOf(mat.data)))
              => IsRaise(mat.ret) /\ mat.ret.exception = "KeyError"

\* C15 amended: materialization raises exactly when the input is neither
\* str nor mapping (NotImplementedError), is a string that is not JSON, is a
\* string whose decoded JSON lacks "subsonic-response" or has something other
\* than an object under it, or (b) holds an attribute whose raw value is a
\* JSON object of an unregistered class, where the KeyError of the lookup
\* reaches the caller; every other input, with scalars, nulls, lists,
\* undeclared keys or values outside a declared Literal, gives an instance.
C15_FailureCases ==
    MaterializeDone =>
        IF mat.data.kind \notin {"str", "dict"}
        THEN IsRaise(mat.ret) /\ mat.ret.exception = "NotImplementedError"
        ELSE IF mat.data.kind = "str" /\ ~IsJson(mat.data)
        THEN IsRaise(mat.ret) /\ mat.ret.exception = "JSONDecodeError"
        ELSE IF LacksEnvelopeKey(mat.data)
        THEN IsRaise(mat.ret) /\ mat.ret.exception \in {"KeyError", "TypeError"}
        ELSE IF ~HoldsMapping(mat.data)
        THEN IsRaise(mat.ret) /\ mat.ret.exception = "TypeError"
        ELSE IF UnresolvedObject(mat.class, MappingOf(mat.data))
        THEN IsRaise(mat.ret) /\ mat.ret.exception = "KeyError"
        ELSE mat.ret.kind = "instance" /\ mat.ret.class = mat.class

\* C15 witness: a mapping with a declared key missing and an undeclared key
\* holding a JSON object was materialized into an instance, the undeclared
\* key left aside.
C15_Witness ==
    /\ MaterializeDone
    /\ mat.data.kind = "dict"
    /\ undeclaredKey \in DOMAIN mat.data.dict
    /\ mat.data.dict[undeclaredKey].kind = "dict"
    /\ mat.ret.kind = "instance"
    /\ DOMAIN mat.ret.vars = variable_names(mat.class)

=============================================================================
